---- MODULE Spec2Model ----
(***************************************************************************)
(* fibonacci_app.py: the naive recursive fibonacci_recursive(n), modelled  *)
(* as the interpreter's call stack of frames, and the two ways it is       *)
(* entered: the module-level script (the page, which calls it with the     *)
(* literal 10) and a caller at the function-call boundary that applies it  *)
(* to arguments drawn from a bounded range, several times in a row.        *)
(***************************************************************************)
EXTENDS Integers, Sequences, FiniteSets, TLC

VARIABLES
    driver,     \* "app": the module-level script runs; "caller": calls at the function boundary
    pc,         \* position of the driver (script line, or the caller's step)
    stack,      \* active frames of fibonacci_recursive, innermost last
    outcome,    \* what the outermost call handed to its caller: nothing yet, a value, or the error
    arg,        \* the argument of the current (or last) outermost call
    trace,      \* arguments of the invocations of the current outermost call, in call order
    topCalls,   \* number of outermost calls made so far
    log,        \* caller: <<argument, outcome>> of each finished outermost call
    result,     \* the module global `result` (line 30)
    page        \* the elements the script has rendered so far

vars == <<driver, pc, stack, outcome, arg, trace, topCalls, log, result, page>>

----------------------------------------------------------------------------
(* Bounds of the model *)

MaxN == 5          \* largest argument the caller draws
MaxNeg == 2        \* the caller draws arguments down to -MaxNeg
MaxCalls == 3      \* outermost calls the caller makes in one run

(* Program constants *)

DisplayArg == 10   \* the literal of line 30

Args == (0 - MaxNeg) .. MaxN

----------------------------------------------------------------------------
(* Values *)

NoOutcome == [kind |-> "none"]
Returned(v) == [kind |-> "value", val |-> v]
ValueError(m) == [kind |-> "error", exc |-> "ValueError", msg |-> m]

Unset == [set |-> FALSE]
Global(v) == [set |-> TRUE, val |-> v]

Frame(n) == [n |-> n, pc |-> "l16", vals |-> <<>>]

Top == stack[Len(stack)]
Pop == SubSeq(stack, 1, Len(stack) - 1)
SetTop(f) == [stack EXCEPT ![Len(stack)] = f]

----------------------------------------------------------------------------
(* fibonacci_recursive, lines 16-20 *)

IsNegativeOrZero(n) == n <= 0

IsNegative(n) == n < 0

IsBaseZeroOnly(n) == n <= 0

IsBaseOneOnly(n) == n = 1

IsBaseUpToTwo(n) == n <= 2

IsBase(n) == n <= 1

LeftArg(n) == n - 1

RightArgSame(n) == n - 1

RightArg(n) == n - 2

Difference(a, b) == a - b

Sum(a, b) == a + b

\* `return v` of the innermost frame: the frame is popped and v goes to the
\* frame below (as the next operand of its line 20) or, from the outermost
\* frame, to the caller.
ReturnValue(v) ==
    IF Len(stack) = 1
    THEN /\ stack' = <<>>
         /\ outcome' = Returned(v)
    ELSE LET below == stack[Len(stack) - 1]
             resumed == [below EXCEPT !.vals = Append(@, v),
                                      !.pc = IF @ = "l20_left" THEN "l20_mid" ELSE "l20_add"]
         IN  /\ stack' = [Pop EXCEPT ![Len(stack) - 1] = resumed]
             /\ outcome' = outcome

\* line 16-17: a negative argument raises ValueError; nothing in the function
\* catches it, so it unwinds every frame and reaches the caller.
Raise ==
    /\ stack # <<>>
    /\ Top.pc = "l16"
    /\ IsNegative(Top.n)
    /\ stack' = <<>>
    /\ outcome' = ValueError("n must be non-negative")
    /\ UNCHANGED <<driver, pc, arg, trace, topCalls, log, result, page>>

\* line 16, condition false
Validate ==
    /\ stack # <<>>
    /\ Top.pc = "l16"
    /\ ~IsNegative(Top.n)
    /\ stack' = SetTop([Top EXCEPT !.pc = "l18"])
    /\ UNCHANGED <<driver, pc, outcome, arg, trace, topCalls, log, result, page>>

\* variant of the base case that returns 1 for every base argument
BaseCaseOne ==
    /\ stack # <<>>
    /\ Top.pc = "l18"
    /\ IsBase(Top.n)
    /\ ReturnValue(1)
    /\ UNCHANGED <<driver, pc, arg, trace, topCalls, log, result, page>>

\* variants of the base case: one that adds the number of earlier outermost
\* calls to the value, one that also stores the value in the global `result`
BaseCaseCounting ==
    /\ stack # <<>>
    /\ Top.pc = "l18"
    /\ IsBase(Top.n)
    /\ ReturnValue(Top.n + (topCalls - 1))
    /\ UNCHANGED <<driver, pc, arg, trace, topCalls, log, result, page>>

BaseCaseGlobal ==
    /\ stack # <<>>
    /\ Top.pc = "l18"
    /\ IsBase(Top.n)
    /\ ReturnValue(Top.n)
    /\ result' = Global(Top.n)
    /\ UNCHANGED <<driver, pc, arg, trace, topCalls, log, page>>

\* line 18-19: return n
BaseCase ==
    /\ stack # <<>>
    /\ Top.pc = "l18"
    /\ IsBase(Top.n)
    /\ ReturnValue(Top.n)
    /\ UNCHANGED <<driver, pc, arg, trace, topCalls, log, result, page>>

\* line 18, condition false: on to line 20
Descend ==
    /\ stack # <<>>
    /\ Top.pc = "l18"
    /\ ~IsBase(Top.n)
    /\ stack' = SetTop([Top EXCEPT !.pc = "l20"])
    /\ UNCHANGED <<driver, pc, outcome, arg, trace, topCalls, log, result, page>>

\* line 20, left operand: fibonacci_recursive(n - 1)
CallLeft ==
    /\ stack # <<>>
    /\ Top.pc = "l20"
    /\ stack' = Append(SetTop([Top EXCEPT !.pc = "l20_left"]), Frame(LeftArg(Top.n)))
    /\ trace' = Append(trace, LeftArg(Top.n))
    /\ UNCHANGED <<driver, pc, outcome, arg, topCalls, log, result, page>>

\* variant of the right operand that takes a base value without a call
CallRightInline ==
    /\ stack # <<>>
    /\ Top.pc = "l20_mid"
    /\ IF IsBase(RightArg(Top.n))
       THEN /\ stack' = SetTop([Top EXCEPT !.pc = "l20_add", !.vals = Append(@, RightArg(Top.n))])
            /\ trace' = trace
       ELSE /\ stack' = Append(SetTop([Top EXCEPT !.pc = "l20_right"]), Frame(RightArg(Top.n)))
            /\ trace' = Append(trace, RightArg(Top.n))
    /\ UNCHANGED <<driver, pc, outcome, arg, topCalls, log, result, page>>

\* line 20, right operand: fibonacci_recursive(n - 2)
CallRight ==
    /\ stack # <<>>
    /\ Top.pc = "l20_mid"
    /\ stack' = Append(SetTop([Top EXCEPT !.pc = "l20_right"]), Frame(RightArg(Top.n)))
    /\ trace' = Append(trace, RightArg(Top.n))
    /\ UNCHANGED <<driver, pc, outcome, arg, topCalls, log, result, page>>

\* line 20: the sum of the two operands is returned
AddReturn ==
    /\ stack # <<>>
    /\ Top.pc = "l20_add"
    /\ ReturnValue(Sum(Top.vals[1], Top.vals[2]))
    /\ UNCHANGED <<driver, pc, arg, trace, topCalls, log, result, page>>

----------------------------------------------------------------------------
(* The module-level script, lines 23-35 *)

\* str(n) of a non-negative int, as the f-string of line 32 formats it
RECURSIVE Str(_)
Str(n) ==
    LET d == <<"0", "1", "2", "3", "4", "5", "6", "7", "8", "9">>[(n % 10) + 1]
    IN  IF n < 10 THEN <<d>> ELSE Append(Str(n \div 10), d)

Widgets ==
    [l23 |-> [widget |-> "title", next |-> "l24"],
     l24 |-> [widget |-> "write", next |-> "l27"],
     l27 |-> [widget |-> "subheader", next |-> "l28"],
     l28 |-> [widget |-> "code", next |-> "l30"],
     l31 |-> [widget |-> "subheader", next |-> "l32"],
     l32 |-> [widget |-> "success", next |-> "l35"],
     l35 |-> [widget |-> "info", next |-> "done"]]

TextAt(p) ==
    CASE p = "l23" -> <<"Fibonacci Sequence - Recursive Implementation">>
      [] p = "l24" -> <<"This app displays the result of the first example from fibonacci-python-guide.md">>
      [] p = "l27" -> <<"Example Usage:">>
      [] p = "l28" -> <<"fibonacci_recursive(10)">>
      [] p = "l31" -> <<"Result:">>
      [] p = "l32" -> <<"fibonacci_recursive(10) = ">> \o Str(result.val)
      [] p = "l35" -> <<"This uses the recursive implementation from the first example in the fibonacci-python-guide.md file.">>

\* st.title, st.write, st.subheader, st.code, st.success, st.info
Render ==
    /\ driver = "app"
    /\ pc \in DOMAIN Widgets
    /\ page' = Append(page, [widget |-> Widgets[pc].widget, text |-> TextAt(pc)])
    /\ pc' = Widgets[pc].next
    /\ UNCHANGED <<driver, stack, outcome, arg, trace, topCalls, log, result>>

\* line 30, right-hand side: fibonacci_recursive(10)
ScriptCall ==
    /\ driver = "app"
    /\ pc = "l30"
    /\ arg' = DisplayArg
    /\ stack' = <<Frame(DisplayArg)>>
    /\ trace' = <<DisplayArg>>
    /\ topCalls' = topCalls + 1
    /\ pc' = "l30_assign"
    /\ UNCHANGED <<driver, outcome, log, result, page>>

\* line 30, the assignment to `result`; an exception ends the script
ScriptAssign ==
    /\ driver = "app"
    /\ pc = "l30_assign"
    /\ outcome.kind # "none"
    /\ IF outcome.kind = "value"
       THEN /\ result' = Global(outcome.val)
            /\ pc' = "l31"
       ELSE /\ result' = result
            /\ pc' = "aborted"
    /\ UNCHANGED <<driver, stack, outcome, arg, trace, topCalls, log, page>>

----------------------------------------------------------------------------
(* A caller at the function-call boundary *)

CallerInvoke ==
    /\ driver = "caller"
    /\ pc = "call"
    /\ topCalls < MaxCalls
    /\ \E n \in Args :
          /\ arg' = n
          /\ stack' = <<Frame(n)>>
          /\ trace' = <<n>>
    /\ outcome' = NoOutcome
    /\ topCalls' = topCalls + 1
    /\ pc' = "receive"
    /\ UNCHANGED <<driver, log, result, page>>

CallerReceive ==
    /\ driver = "caller"
    /\ pc = "receive"
    /\ outcome.kind # "none"
    /\ log' = Append(log, [n |-> arg, out |-> outcome])
    /\ pc' = "call"
    /\ UNCHANGED <<driver, stack, outcome, arg, trace, topCalls, result, page>>

----------------------------------------------------------------------------

Init ==
    /\ driver \in {"app", "caller"}
    /\ pc = IF driver = "app" THEN "l23" ELSE "call"
    /\ stack = <<>>
    /\ outcome = NoOutcome
    /\ arg = 0
    /\ trace = <<>>
    /\ topCalls = 0
    /\ log = <<>>
    /\ result = Unset
    /\ page = <<>>

FibStep == Raise \/ Validate \/ BaseCase \/ Descend \/ CallLeft \/ CallRight \/ AddReturn

Next == FibStep \/ Render \/ ScriptCall \/ ScriptAssign \/ CallerInvoke \/ CallerReceive

Spec == Init /\ [][Next]_vars

\* the interpreter is single-threaded and synchronous: it always takes the next step
FairSpec == Spec /\ WF_vars(Next)

----------------------------------------------------------------------------
(* Properties *)

Finished == topCalls > 0 /\ stack = <<>> /\ outcome.kind # "none"

\* C1: for every n >= 2 the caller applied the function to, the value returned
\* for n is the value returned for n-1 plus the value returned for n-2.
C1_Recurrence ==
    \A i, j, k \in DOMAIN log :
        (log[i].n >= 2 /\ log[j].n = log[i].n - 1 /\ log[k].n = log[i].n - 2)
            => /\ log[i].out.kind = "value"
               /\ log[j].out.kind = "value"
               /\ log[k].out.kind = "value"
               /\ log[i].out.val = log[j].out.val + log[k].out.val

C1_Witness ==
    \E i, j, k \in DOMAIN log :
        log[i].n >= 3 /\ log[j].n = log[i].n - 1 /\ log[k].n = log[i].n - 2

\* C2: a call with n in {0, 1} makes no recursive call (its own invocation is
\* the only one, one frame at most) and returns n itself.
C2_BaseCases ==
    (topCalls > 0 /\ arg \in {0, 1})
        => /\ trace = <<arg>>
           /\ Len(stack) <= 1
           /\ outcome.kind # "none" => outcome = Returned(arg)

C2_Witness == Finished /\ arg = 1 /\ outcome = Returned(1)

\* C3: a call ends in ValueError("n must be non-negative") exactly when its
\* argument is negative; then it is raised by the first invocation, before any
\* recursive call, and no value is returned. With n >= 0 no invocation of the
\* expansion receives a negative argument.
C3_ErrorIffNegative ==
    topCalls > 0
        => /\ outcome.kind = "error" => outcome = ValueError("n must be non-negative")
           /\ Finished => (outcome.kind = "error" <=> arg < 0)
           /\ arg < 0 => trace = <<arg>> /\ Len(stack) <= 1 /\ outcome.kind # "value"
           /\ arg >= 0 => \A i \in DOMAIN trace : trace[i] >= 0

C3_Witness ==
    /\ Finished
    /\ arg < 0
    /\ outcome.kind = "error"
    /\ \E i \in DOMAIN log : log[i].n >= 2 /\ log[i].out.kind = "value"

\* C4: the script calls fibonacci_recursive exactly once, with the literal 10,
\* and the value it receives, stores in `result` and renders is 55.
C4_DisplayValue ==
    driver = "app"
        => /\ topCalls <= 1
           /\ topCalls = 1 => arg = 10 /\ trace[1] = 10
           /\ pc # "aborted"
           /\ result.set => result.val = 55
           /\ pc \in {"l31", "l32", "l35", "done"} => topCalls = 1 /\ result = Global(55)
           /\ \A i \in DOMAIN page :
                 page[i].widget = "success"
                     => page[i].text = <<"fibonacci_recursive(10) = ", "5", "5">>
           /\ pc = "done" => \E i \in DOMAIN page : page[i].widget = "success"

C4_Witness ==
    /\ driver = "app"
    /\ pc = "done"
    /\ \E i \in DOMAIN page : page[i].widget = "success"

\* C5: for every n >= 1 the caller applied the function to, the value returned
\* for n is at least the value returned for n-1.
C5_Monotone ==
    \A i, j \in DOMAIN log :
        (log[i].n >= 1 /\ log[j].n = log[i].n - 1)
            => /\ log[i].out.kind = "value"
               /\ log[j].out.kind = "value"
               /\ log[i].out.val >= log[j].out.val

C5_Witness ==
    \E i, j \in DOMAIN log :
        /\ log[i].n >= 3
        /\ log[j].n = log[i].n - 1
        /\ log[i].out.kind = "value"
        /\ log[j].out.kind = "value"
        /\ log[i].out.val > log[j].out.val

\* C6: two finished calls with the same argument have the same outcome (the
\* same value, or the same error), whatever calls were made before them.
C6_Deterministic ==
    \A i, j \in DOMAIN log : log[i].n = log[j].n => log[i].out = log[j].out

C6_Witness ==
    \E i, j \in DOMAIN log :
        /\ j >= i + 2
        /\ log[i].n = log[j].n
        /\ log[i].n >= 2
        /\ log[i + 1].n # log[i].n

\* C7: while a call is active no step changes anything outside its frames (the
\* script's position, the page, the global `result`, the caller's records),
\* and nothing is handed outward before the outermost frame is gone.
C7_Pure ==
    [][stack # <<>> => /\ UNCHANGED <<driver, pc, arg, topCalls, log, result, page>>
                       /\ stack' # <<>> => outcome' = outcome]_vars

C7_Witness == Len(stack) >= 3 /\ topCalls >= 2

\* C8: every call with n >= 0 eventually completes: the stack empties and an
\* integer is handed to the caller.
C8_Terminates ==
    (stack # <<>> /\ arg >= 0) ~> (stack = <<>> /\ arg >= 0 /\ outcome.kind = "value")

C8_Witness == Finished /\ arg >= 3 /\ outcome.kind = "value"

Max(a, b) == IF a >= b THEN a ELSE b

\* C9 (as stated): during a call with n >= 0 the number of active frames never
\* exceeds n.
C9_DepthAtMostN == (topCalls > 0 /\ arg >= 0) => Len(stack) <= arg

\* C9 (amended): during a call with n >= 0 the number of active frames never
\* exceeds max(n, 1).
C9_DepthBound == (topCalls > 0 /\ arg >= 0) => Len(stack) <= Max(arg, 1)

C9_Witness == topCalls > 0 /\ arg >= 3 /\ Len(stack) = arg

RECURSIVE Calls(_)
Calls(n) == IF n <= 1 THEN 1 ELSE 1 + Calls(n - 1) + Calls(n - 2)

\* the invocations of a naive evaluation of n, in call order: n itself, then
\* the whole subtree of n-1, then the whole subtree of n-2
RECURSIVE Preorder(_)
Preorder(n) == IF n <= 1 THEN <<n>> ELSE <<n>> \o Preorder(n - 1) \o Preorder(n - 2)

IsPrefix(s, t) == Len(s) <= Len(t) /\ SubSeq(t, 1, Len(s)) = s

\* C10: a call with n >= 0 invokes the function in the order of the naive
\* expansion (n, then all of the subtree of n-1, then all of the subtree of
\* n-2) and, when it has finished, has made exactly calls(n) invocations, where
\* calls(0) = calls(1) = 1 and calls(n) = 1 + calls(n-1) + calls(n-2).
C10_NaiveShape ==
    (topCalls > 0 /\ arg >= 0)
        => /\ IsPrefix(trace, Preorder(arg))
           /\ Finished => Len(trace) = Calls(arg)
           /\ \A i \in DOMAIN stack :
                 Len(stack[i].vals) = CASE stack[i].pc \in {"l20_mid", "l20_right"} -> 1
                                        [] stack[i].pc = "l20_add" -> 2
                                        [] OTHER -> 0

C10_Witness == Finished /\ arg >= 4 /\ Len(trace) = Calls(arg) /\ Len(trace) >= 9

====
